---- MODULE Spec2Model ----
(***************************************************************************)
(* Registration admission core of the event RSVP backend.                  *)
(*                                                                         *)
(* The store (PostgreSQL through Prisma) holds one event, its invitations, *)
(* the attendees and their plus-ones.  Every request is a call that runs   *)
(* as a sequence of steps; each awaited store access or collaborator       *)
(* block is one step, and calls interleave between steps.  A               *)
(* prisma.$transaction block is one atomic step: it commits all of its     *)
(* writes or none.                                                         *)
(***************************************************************************)
EXTENDS Integers, FiniteSets, Sequences, TLC

\* ------------------------------------------------------------------ bounds

NumInvites == 2     \* invitations issued for the event
NumSubmit == 2      \* submitRsvp calls
NumCancel == 2      \* cancel calls (cancelRsvp or cancelAttendee)
MaxCapacity == 2    \* largest event capacity
MaxNow == 1         \* last instant of the clock
NumQrCodes == 2     \* values generateQrCode returns when it may repeat itself
NumCheckIn == 2     \* checkInAttendee calls
NumCreate == 3      \* createInvite calls
NumEmails == 3      \* email addresses invitations are created for
NumUpdate == 1      \* EventService.update calls

\* ------------------------------------------------------- program constants

RegIdDigits == 100000000   \* Date.now().toString().slice(-8)

\* ------------------------------------------------------------------- sets

Invites == 1..NumInvites
UnknownToken == 0
Tokens == Invites \cup {UnknownToken}

SubmitCalls == 1..NumSubmit
CancelCalls == (NumSubmit + 1)..(NumSubmit + NumCancel)
Calls == SubmitCalls \cup CancelCalls

CheckInCalls == 1..NumCheckIn
CreateCalls == 1..NumCreate
UpdateCalls == 1..NumUpdate
Emails == 1..NumEmails

\* An attendee row is identified by the call that created it.
AttendeeIds == SubmitCalls

\* A null column (checkedInAt) and a value no QR code has.
Null == -1
NoQrCode == 0

NoAttendee == [exists |-> FALSE, inviteId |-> 0, status |-> "NONE", registrationId |-> -1,
               qrCode |-> NoQrCode, checkedInAt |-> Null]
NoPlusOne == [exists |-> FALSE, registrationId |-> <<>>, qrCode |-> NoQrCode, checkedInAt |-> Null]
NoRsvp == [token |-> UnknownToken, plusOne |-> FALSE, status |-> "NONE", registrationId |-> -1,
           qrCode |-> NoQrCode]
NoCancel == [service |-> "none", attendeeId |-> 0, status |-> "NONE", slotsToFree |-> 0]
NoEffects == [attempted |-> {}, failed |-> {}]
NoCheckIn == [pc |-> "idle", qrCode |-> NoQrCode, id |-> 0, error |-> "none"]
NoCreate == [pc |-> "idle", email |-> 0, error |-> "none"]
NoUpdate == [pc |-> "idle", capacity |-> 0]

VARIABLES
    now,        \* the clock (Date.now(), new Date())
    event,      \* the event row: capacity, currentRegistrations and the two flags
    invites,    \* invite rows by token: isUsed, expiresAt
    attendees,  \* attendee rows by id
    plusOnes,   \* plus_ones rows by attendeeId
    pc,         \* each call's position
    rsvp,       \* submitRsvp locals: token, plusOne, status, registrationId
    cancel,     \* cancel locals: service, attendeeId, status read, slotsToFree
    error,      \* the exception a failed call ended with
    effects,    \* side effects of a submitRsvp call: attempted, failed
    checkIn,    \* checkInAttendee calls: position, qrCode, row found, error
    create,     \* createInvite calls: position, email, error
    createdInvites, \* invite rows added by createInvite: <<call, email>>
    update      \* EventService.update calls: position, new capacity

store == <<event, invites, attendees, plusOnes>>
otherCalls == <<checkIn, create, createdInvites, update>>
vars == <<now, event, invites, attendees, plusOnes, pc, rsvp, cancel, error, effects,
          checkIn, create, createdInvites, update>>

\* --------------------------------------------------------------- the store

\* The first invitation is about to expire; the others outlive the clock.
InitialExpiresAt(t) == IF t = 1 THEN 0 ELSE MaxNow + 1

\* Each invitation was created for an email address of its own.
InitialEmail(t) == t

\* The event rows a fresh event can be: no registration yet, and the two flags
\* drawn from the given sets.
EventRows(waitlistEnabled, registrationOpen) ==
    [capacity : 1..MaxCapacity, currentRegistrations : {0},
     waitlistEnabled : waitlistEnabled, registrationOpen : registrationOpen]

\* An event with the defaults of the events table: waitlistEnabled and
\* registrationOpen both true.
Init ==
    /\ now = 0
    /\ event \in EventRows({TRUE}, {TRUE})
    /\ invites = [t \in Invites |->
            [isUsed |-> FALSE, expiresAt |-> InitialExpiresAt(t), email |-> InitialEmail(t)]]
    /\ attendees = [a \in AttendeeIds |-> NoAttendee]
    /\ plusOnes = [a \in AttendeeIds |-> NoPlusOne]
    /\ pc = [c \in Calls |-> "idle"]
    /\ rsvp = [c \in SubmitCalls |-> NoRsvp]
    /\ cancel = [c \in CancelCalls |-> NoCancel]
    /\ error = [c \in Calls |-> "none"]
    /\ effects = [c \in SubmitCalls |-> NoEffects]
    /\ checkIn = [k \in CheckInCalls |-> NoCheckIn]
    /\ create = [k \in CreateCalls |-> NoCreate]
    /\ createdInvites = {}
    /\ update = [k \in UpdateCalls |-> NoUpdate]

Tick ==
    /\ now < MaxNow
    /\ now' = now + 1
    /\ UNCHANGED <<store, pc, rsvp, cancel, error, effects, otherCalls>>

\* ------------------------------------------------------------ pure helpers

\* validateToken without its expiry check.
validateToken_noExpiry(token) ==
    IF token \notin Invites THEN "NotFound"
    ELSE IF invites[token].isUsed THEN "AlreadyUsed"
    ELSE "ok"

\* validateToken checking expiry before the used-state.
validateToken_expiryFirst(token) ==
    IF token \notin Invites THEN "NotFound"
    ELSE IF now > invites[token].expiresAt THEN "Expired"
    ELSE IF invites[token].isUsed THEN "AlreadyUsed"
    ELSE "ok"

\* InviteService.validateToken: existence, then used-state, then expiry.
validateToken(token) ==
    IF token \notin Invites THEN "NotFound"
    ELSE IF invites[token].isUsed THEN "AlreadyUsed"
    ELSE IF now > invites[token].expiresAt THEN "Expired"
    ELSE "ok"

requiredSlots(includesPlusOne) == IF includesPlusOne THEN 2 ELSE 1

\* checkCapacity asking for one free seat more than the party needs.
checkCapacity_strict(includesPlusOne) ==
    LET availableSlots == event.capacity - event.currentRegistrations
    IN  availableSlots > requiredSlots(includesPlusOne)

\* RsvpService.checkCapacity.  The event row is always found: the foreign key
\* of its invitations (ON DELETE RESTRICT) keeps it from being deleted.
checkCapacity(includesPlusOne) ==
    LET availableSlots == event.capacity - event.currentRegistrations
    IN  availableSlots >= requiredSlots(includesPlusOne)

\* RsvpService.generateRegistrationId: the last 8 digits of the clock.
generateRegistrationId == now % RegIdDigits

plusOneRegistrationId(registrationId) == <<registrationId, "P1">>

\* RsvpService.generateQrCode, 16 random bytes, when no two calls of it ever
\* return the same value: the code of call c's attendee and of its plus-one.
freshQrCode(c) == c

freshPlusOneQrCode(c) == NumSubmit + c

\* The attendees table without its unique index on inviteId.
inviteIdTaken_noIndex(inviteId) == FALSE

\* The attendees table without its unique index on registrationId.
registrationIdTaken_noIndex(registrationId) == FALSE

\* Unique indexes of the attendees table.
inviteIdTaken(inviteId) ==
    \E a \in AttendeeIds : attendees[a].exists /\ attendees[a].inviteId = inviteId

registrationIdTaken(registrationId) ==
    \E a \in AttendeeIds : attendees[a].exists /\ attendees[a].registrationId = registrationId

\* Unique index of the plus_ones table on registrationId.
plusOneRegistrationIdTaken(registrationId) ==
    \E a \in AttendeeIds : plusOnes[a].exists /\ plusOnes[a].registrationId = registrationId

\* The attendees table without its unique index on qrCode.
qrCodeTaken_noIndex(qrCode) == FALSE

\* Unique indexes on qrCode, one for each table.
qrCodeTaken(qrCode) ==
    \E a \in AttendeeIds : attendees[a].exists /\ attendees[a].qrCode = qrCode

plusOneQrCodeTaken(qrCode) ==
    \E a \in AttendeeIds : plusOnes[a].exists /\ plusOnes[a].qrCode = qrCode

Fail(c, e) ==
    /\ pc' = [pc EXCEPT ![c] = "failed"]
    /\ error' = [error EXCEPT ![c] = e]

\* ------------------------------------------------------------- submitRsvp

\* Steps 1-2: validateToken, then the double-check of isUsed.
submitRsvpValidate(c, token, plusOne) ==
    /\ pc[c] = "idle"
    /\ LET v == validateToken(token) IN
       IF v # "ok"
       THEN /\ Fail(c, v)
            /\ rsvp' = [rsvp EXCEPT ![c] = [NoRsvp EXCEPT !.token = token]]
       ELSE IF invites[token].isUsed
       THEN /\ Fail(c, "AlreadyUsed")
            /\ rsvp' = [rsvp EXCEPT ![c] = [NoRsvp EXCEPT !.token = token]]
       ELSE /\ pc' = [pc EXCEPT ![c] = "checkCapacity"]
            /\ rsvp' = [rsvp EXCEPT ![c] = [NoRsvp EXCEPT !.token = token, !.plusOne = plusOne]]
            /\ UNCHANGED error
    /\ UNCHANGED <<now, store, cancel, effects, otherCalls>>

\* Steps 3-5: read the event, decide the status, generate the identifiers;
\* qrCode is what generateQrCode returns.
submitRsvpCheckCapacityWith(c, qrCode) ==
    /\ pc[c] = "checkCapacity"
    /\ LET hasCapacity == checkCapacity(rsvp[c].plusOne)
           status == IF hasCapacity THEN "CONFIRMED" ELSE "WAITLISTED"
       IN  rsvp' = [rsvp EXCEPT ![c].status = status,
                                ![c].registrationId = generateRegistrationId,
                                ![c].qrCode = qrCode]
    /\ pc' = [pc EXCEPT ![c] = "transaction"]
    /\ UNCHANGED <<now, store, cancel, error, effects, otherCalls>>

submitRsvpCheckCapacity(c) == submitRsvpCheckCapacityWith(c, freshQrCode(c))

\* Step 6, the writes of the transaction, each as the store applies it.
createAttendee(id, r) ==
    [attendees EXCEPT ![id] = [exists |-> TRUE, inviteId |-> r.token, status |-> r.status,
                               registrationId |-> r.registrationId,
                               qrCode |-> r.qrCode, checkedInAt |-> Null]]

createPlusOne(id, r, plusOneQrCode) ==
    IF r.plusOne
    THEN [plusOnes EXCEPT ![id] = [exists |-> TRUE,
                                   registrationId |-> plusOneRegistrationId(r.registrationId),
                                   qrCode |-> plusOneQrCode, checkedInAt |-> Null]]
    ELSE plusOnes

\* A transaction that leaves the invitation as it was.
markInviteUsed_skipped(token) == invites

markInviteUsed(token) == [invites EXCEPT ![token].isUsed = TRUE]

incrementRegistrations(r) ==
    IF r.status = "CONFIRMED"
    THEN [event EXCEPT !.currentRegistrations = @ + requiredSlots(r.plusOne)]
    ELSE event

\* A create that breaks a unique index throws, and the transaction rolls back.
uniqueViolation(r, plusOneQrCode) ==
    \/ inviteIdTaken(r.token)
    \/ registrationIdTaken(r.registrationId)
    \/ qrCodeTaken(r.qrCode)
    \/ (r.plusOne /\ plusOneRegistrationIdTaken(plusOneRegistrationId(r.registrationId)))
    \/ (r.plusOne /\ plusOneQrCodeTaken(plusOneQrCode))

\* Step 6: prisma.$transaction, committed as a whole or not at all;
\* plusOneQrCode is what generateQrCode returns inside it.
submitRsvpTransactionWith(c, plusOneQrCode) ==
    /\ pc[c] = "transaction"
    /\ LET r == rsvp[c] IN
       IF uniqueViolation(r, plusOneQrCode)
       THEN /\ Fail(c, "UniqueConstraint")
            /\ rsvp' = [rsvp EXCEPT ![c] = [NoRsvp EXCEPT !.token = r.token]]
            /\ UNCHANGED store
       ELSE /\ attendees' = createAttendee(c, r)
            /\ plusOnes' = createPlusOne(c, r, plusOneQrCode)
            /\ invites' = markInviteUsed(r.token)
            /\ event' = incrementRegistrations(r)
            /\ pc' = [pc EXCEPT ![c] = "reread"]
            /\ rsvp' = [rsvp EXCEPT ![c].registrationId = -1, ![c].qrCode = NoQrCode]
            /\ UNCHANGED error
    /\ UNCHANGED <<now, cancel, effects, otherCalls>>

submitRsvpTransaction(c) == submitRsvpTransactionWith(c, freshPlusOneQrCode(c))

\* Step 7: read the event again for the response (the row is always found).
submitRsvpReread(c) ==
    /\ pc[c] = "reread"
    /\ pc' = [pc EXCEPT ![c] = "notify"]
    /\ UNCHANGED <<now, store, rsvp, cancel, error, effects, otherCalls>>

\* Step 8: the collaborator calls of the email try block, in the order made.
emailBlock(status, plusOne) ==
    IF status = "CONFIRMED"
    THEN <<"calendarFile", "qrCodeImage", "confirmationEmail">>
         \o (IF plusOne THEN <<"plusOneQrCodeImage", "plusOneConfirmationEmail">> ELSE <<>>)
    ELSE <<"waitlistEmail">>

\* The calls reached when the n-th one throws (n = 0: none throws).
attemptedCalls(block, n) ==
    {block[i] : i \in 1..(IF n = 0 THEN Len(block) ELSE n)}

failedCalls(block, n) == IF n = 0 THEN {} ELSE {block[n]}

\* An email block whose catch rethrows.
afterEmailBlock_rethrow(failed) == IF failed # {} THEN "failed" ELSE "sync"

\* Where the call goes after the email try/catch and after the sheets try/catch.
afterEmailBlock(failed) == "sync"

afterSheetSync(failed) == "done"

submitRsvpSendEmails(c) ==
    /\ pc[c] = "notify"
    /\ \E n \in 0..Len(emailBlock(rsvp[c].status, rsvp[c].plusOne)) :
        LET block == emailBlock(rsvp[c].status, rsvp[c].plusOne)
            failed == failedCalls(block, n)
        IN  /\ effects' = [effects EXCEPT ![c] =
                    [attempted |-> attemptedCalls(block, n), failed |-> failed]]
            /\ IF afterEmailBlock(failed) = "failed"
               THEN Fail(c, "EmailFailed")
               ELSE /\ pc' = [pc EXCEPT ![c] = afterEmailBlock(failed)]
                    /\ UNCHANGED error
    /\ UNCHANGED <<now, store, rsvp, cancel, otherCalls>>

\* Steps 9-10: SheetsService.addAttendeeToSheet inside its own try/catch, then
\* the response is formatted and returned; the call's locals are gone.
submitRsvpSyncSheets(c) ==
    /\ pc[c] = "sync"
    /\ \E throws \in BOOLEAN :
        LET failed == IF throws THEN {"sheetSync"} ELSE {} IN
        IF afterSheetSync(failed) = "failed"
        THEN Fail(c, "SheetSyncFailed")
        ELSE /\ pc' = [pc EXCEPT ![c] = afterSheetSync(failed)]
             /\ UNCHANGED error
    /\ rsvp' = [rsvp EXCEPT ![c].plusOne = FALSE]
    /\ effects' = [effects EXCEPT ![c] = NoEffects]
    /\ UNCHANGED <<now, store, cancel, otherCalls>>

\* ---------------------------------------------------------------- cancel

notFoundError(service) ==
    IF service = "cancelRsvp" THEN "RegistrationNotFound" ELSE "AttendeeNotFound"

alreadyCancelledError(service) ==
    IF service = "cancelRsvp" THEN "RegistrationAlreadyCancelled" ELSE "AttendeeAlreadyCancelled"

\* A cancel without its check of the status read.
isCancelled_unchecked(attendee) == FALSE

\* The check that rejects a second cancel.
isCancelled(attendee) == attendee.status = "CANCELLED"

\* The read and the checks before the transaction.
cancelRead(c, service, attendeeId) ==
    /\ pc[c] = "idle"
    /\ LET attendee == attendees[attendeeId] IN
       IF ~attendee.exists
       THEN /\ Fail(c, notFoundError(service))
            /\ UNCHANGED cancel
       ELSE IF isCancelled(attendee)
       THEN /\ Fail(c, alreadyCancelledError(service))
            /\ UNCHANGED cancel
       ELSE /\ pc' = [pc EXCEPT ![c] = "transaction"]
            /\ cancel' = [cancel EXCEPT ![c] =
                    [service |-> service, attendeeId |-> attendeeId,
                     status |-> attendee.status,
                     slotsToFree |-> requiredSlots(plusOnes[attendeeId].exists)]]
            /\ UNCHANGED error
    /\ UNCHANGED <<now, store, rsvp, effects, otherCalls>>

\* A cancel that frees the seats whatever status it read.
decrementRegistrations_always(k) ==
    [event EXCEPT !.currentRegistrations = @ - k.slotsToFree]

decrementRegistrations(k) ==
    IF k.status = "CONFIRMED"
    THEN [event EXCEPT !.currentRegistrations = @ - k.slotsToFree]
    ELSE event

\* A cancel that puts the registrant back on the waitlist.
statusAfterCancel_waitlisted(attendee) == "WAITLISTED"

\* The status the transaction writes, whatever the row holds.
statusAfterCancel(attendee) == "CANCELLED"

\* A cancel that hands the invitation back to the guest.
invitesAfterCancel_released(attendeeId) ==
    [invites EXCEPT ![attendees[attendeeId].inviteId].isUsed = FALSE]

\* The transaction of a cancel writes the attendee and the event only.
invitesAfterCancel(attendeeId) == invites

\* The transaction: status CANCELLED, capacity freed if the status read was CONFIRMED.
cancelTransaction(c) ==
    /\ pc[c] = "transaction"
    /\ attendees' = [attendees EXCEPT ![cancel[c].attendeeId].status =
                        statusAfterCancel(attendees[cancel[c].attendeeId])]
    /\ event' = decrementRegistrations(cancel[c])
    /\ invites' = invitesAfterCancel(cancel[c].attendeeId)
    /\ pc' = [pc EXCEPT ![c] = "done"]
    /\ cancel' = [cancel EXCEPT ![c] = [NoCancel EXCEPT !.attendeeId = cancel[c].attendeeId]]
    /\ UNCHANGED <<now, plusOnes, rsvp, error, effects, otherCalls>>

RsvpService_cancelRsvp(c) ==
    \/ \E a \in AttendeeIds : cancelRead(c, "cancelRsvp", a)
    \/ cancel[c].service = "cancelRsvp" /\ cancelTransaction(c)

AdminService_cancelAttendee(c) ==
    \/ \E a \in AttendeeIds : cancelRead(c, "cancelAttendee", a)
    \/ cancel[c].service = "cancelAttendee" /\ cancelTransaction(c)

submitRsvp(c) ==
    \/ \E token \in Tokens, plusOne \in BOOLEAN : submitRsvpValidate(c, token, plusOne)
    \/ submitRsvpCheckCapacity(c)
    \/ submitRsvpTransaction(c)
    \/ submitRsvpReread(c)
    \/ submitRsvpSendEmails(c)
    \/ submitRsvpSyncSheets(c)

\* ----------------------------------------------------------- createInvite

\* prisma.invite.findFirst({ where: { email, eventId } }).
existingInvite(email) ==
    \/ \E t \in Invites : invites[t].email = email
    \/ \E row \in createdInvites : row[2] = email

\* The event is found, then the check for an invitation of the same email.
createInviteFindExisting(k, email) ==
    /\ create[k].pc = "idle"
    /\ IF existingInvite(email)
       THEN create' = [create EXCEPT ![k] =
                [pc |-> "failed", email |-> email, error |-> "InviteAlreadyExists"]]
       ELSE create' = [create EXCEPT ![k] =
                [pc |-> "generateInvite", email |-> email, error |-> "none"]]
    /\ UNCHANGED <<now, store, pc, rsvp, cancel, error, effects, checkIn, createdInvites, update>>

\* generateInvite inserts the row: the only unique index of the invites table
\* is on token, and the token of a new row is a fresh UUID.  The invitation
\* email is then sent inside a try/catch, and the invitation is returned.
createInviteGenerate(k) ==
    /\ create[k].pc = "generateInvite"
    /\ createdInvites' = createdInvites \cup {<<k, create[k].email>>}
    /\ create' = [create EXCEPT ![k].pc = "done"]
    /\ UNCHANGED <<now, store, pc, rsvp, cancel, error, effects, checkIn, update>>

\* A call of bulkCreateInvites is a sequence of createInvite calls, one for
\* each of its emails, each inside a try/catch.
InviteService_createInvite(k) ==
    \/ \E email \in Emails : createInviteFindExisting(k, email)
    \/ createInviteGenerate(k)

\* ------------------------------------------------------ EventService.update

\* findById: the event is found.
updateFindById(k, capacity) ==
    /\ update[k].pc = "idle"
    /\ update' = [update EXCEPT ![k] = [pc |-> "update", capacity |-> capacity]]
    /\ UNCHANGED <<now, store, pc, rsvp, cancel, error, effects, checkIn, create, createdInvites>>

\* prisma.event.update with the data of the request, here a new capacity.
updateWrite(k) ==
    /\ update[k].pc = "update"
    /\ event' = [event EXCEPT !.capacity = update[k].capacity]
    /\ update' = [update EXCEPT ![k].pc = "done"]
    /\ UNCHANGED <<now, invites, attendees, plusOnes, pc, rsvp, cancel, error, effects,
                   checkIn, create, createdInvites>>

EventService_update(k) ==
    \/ \E capacity \in 1..MaxCapacity : updateFindById(k, capacity)
    \/ updateWrite(k)

\* -------------------------------------------------------- checkInAttendee

\* The QR codes a scanner can present: every code issued, and one that is not.
InvalidQrCode == 2 * NumSubmit + 1

ScannedQrCodes == 1..InvalidQrCode

\* prisma.attendee.findUnique({ where: { qrCode } }) and its plus_ones twin.
attendeeByQrCode(qrCode) ==
    {a \in AttendeeIds : attendees[a].exists /\ attendees[a].qrCode = qrCode}

plusOneByQrCode(qrCode) ==
    {a \in AttendeeIds : plusOnes[a].exists /\ plusOnes[a].qrCode = qrCode}

CheckInFail(k, qrCode, e) ==
    checkIn' = [checkIn EXCEPT ![k] = [NoCheckIn EXCEPT !.pc = "failed", !.qrCode = qrCode, !.error = e]]

\* The attendee is looked up first; a row found is checked for checkedInAt.
checkInFindAttendee(k, qrCode) ==
    /\ checkIn[k].pc = "idle"
    /\ IF attendeeByQrCode(qrCode) # {}
       THEN LET a == CHOOSE a \in AttendeeIds : a \in attendeeByQrCode(qrCode) IN
            IF attendees[a].checkedInAt # Null
            THEN CheckInFail(k, qrCode, "AttendeeAlreadyCheckedIn")
            ELSE checkIn' = [checkIn EXCEPT ![k] =
                    [NoCheckIn EXCEPT !.pc = "updateAttendee", !.qrCode = qrCode, !.id = a]]
       ELSE checkIn' = [checkIn EXCEPT ![k] =
                    [NoCheckIn EXCEPT !.pc = "findPlusOne", !.qrCode = qrCode]]
    /\ UNCHANGED <<now, store, pc, rsvp, cancel, error, effects, create, createdInvites, update>>

\* No attendee has the code: the plus-one is looked up.
checkInFindPlusOne(k) ==
    /\ checkIn[k].pc = "findPlusOne"
    /\ LET qrCode == checkIn[k].qrCode IN
       IF plusOneByQrCode(qrCode) # {}
       THEN LET a == CHOOSE a \in AttendeeIds : a \in plusOneByQrCode(qrCode) IN
            IF plusOnes[a].checkedInAt # Null
            THEN CheckInFail(k, qrCode, "PlusOneAlreadyCheckedIn")
            ELSE checkIn' = [checkIn EXCEPT ![k].pc = "updatePlusOne", ![k].id = a]
       ELSE CheckInFail(k, qrCode, "InvalidQrCode")
    /\ UNCHANGED <<now, store, pc, rsvp, cancel, error, effects, create, createdInvites, update>>

\* Where the call goes after sheetsService.updateCheckInStatus.
afterUpdateCheckInStatus == "done"

\* A check-in of the registrant that checks its plus-one in as well.
plusOnesAfterAttendeeCheckIn_cascade(id) ==
    IF plusOnes[id].exists THEN [plusOnes EXCEPT ![id].checkedInAt = now] ELSE plusOnes

\* The update of the attendee row writes no plus_ones row.
plusOnesAfterAttendeeCheckIn(id) == plusOnes

\* prisma.attendee.update({ data: { checkedInAt: new Date() } }), the sheet
\* update, and the response.
checkInUpdateAttendee(k) ==
    /\ checkIn[k].pc = "updateAttendee"
    /\ attendees' = [attendees EXCEPT ![checkIn[k].id].checkedInAt = now]
    /\ plusOnes' = plusOnesAfterAttendeeCheckIn(checkIn[k].id)
    /\ checkIn' = [checkIn EXCEPT ![k].pc = afterUpdateCheckInStatus, ![k].id = 0]
    /\ UNCHANGED <<now, event, invites, pc, rsvp, cancel, error, effects,
                   create, createdInvites, update>>

\* The same for the plus-one.
checkInUpdatePlusOne(k) ==
    /\ checkIn[k].pc = "updatePlusOne"
    /\ plusOnes' = [plusOnes EXCEPT ![checkIn[k].id].checkedInAt = now]
    /\ checkIn' = [checkIn EXCEPT ![k].pc = afterUpdateCheckInStatus, ![k].id = 0]
    /\ UNCHANGED <<now, event, invites, attendees, pc, rsvp, cancel, error, effects,
                   create, createdInvites, update>>

QrService_checkInAttendee(k) ==
    \/ \E qrCode \in ScannedQrCodes : checkInFindAttendee(k, qrCode)
    \/ checkInFindPlusOne(k)
    \/ checkInUpdateAttendee(k)
    \/ checkInUpdatePlusOne(k)

\* ------------------------------------------------------- specifications

Next ==
    \/ Tick
    \/ \E c \in SubmitCalls : submitRsvp(c)
    \/ \E c \in CancelCalls : RsvpService_cancelRsvp(c)
    \/ \E c \in CancelCalls : AdminService_cancelAttendee(c)

Spec == Init /\ [][Next]_vars

\* The store is unavailable at one of a call's store accesses: the read of
\* validateToken, the read of checkCapacity, a write of the transaction (which
\* rolls back) or the event read that follows the commit.
submitRsvpStoreFailure(c, token) ==
    /\ pc[c] \in {"idle", "checkCapacity", "transaction", "reread"}
    /\ Fail(c, "StoreUnavailable")
    /\ rsvp' = [rsvp EXCEPT ![c] =
            [NoRsvp EXCEPT !.token = IF pc[c] = "idle" THEN token ELSE rsvp[c].token]]
    /\ UNCHANGED <<now, store, cancel, effects, otherCalls>>

\* The same for a cancel: its read, or a write of its transaction.
cancelStoreFailure(c) ==
    /\ pc[c] \in {"idle", "transaction"}
    /\ Fail(c, "StoreUnavailable")
    /\ cancel' = [cancel EXCEPT ![c] = NoCancel]
    /\ UNCHANGED <<now, store, rsvp, effects, otherCalls>>

NextFault ==
    \/ Next
    \/ \E c \in SubmitCalls, token \in Tokens : submitRsvpStoreFailure(c, token)
    \/ \E c \in CancelCalls : cancelStoreFailure(c)

\* As Spec, with a store that may fail at any access.
FaultSpec == Init /\ [][NextFault]_vars

\* An event created with any value of its flags (EventService.create).
InitAnyFlags ==
    /\ now = 0
    /\ event \in EventRows(BOOLEAN, BOOLEAN)
    /\ invites = [t \in Invites |->
            [isUsed |-> FALSE, expiresAt |-> InitialExpiresAt(t), email |-> InitialEmail(t)]]
    /\ attendees = [a \in AttendeeIds |-> NoAttendee]
    /\ plusOnes = [a \in AttendeeIds |-> NoPlusOne]
    /\ pc = [c \in Calls |-> "idle"]
    /\ rsvp = [c \in SubmitCalls |-> NoRsvp]
    /\ cancel = [c \in CancelCalls |-> NoCancel]
    /\ error = [c \in Calls |-> "none"]
    /\ effects = [c \in SubmitCalls |-> NoEffects]
    /\ checkIn = [k \in CheckInCalls |-> NoCheckIn]
    /\ create = [k \in CreateCalls |-> NoCreate]
    /\ createdInvites = {}
    /\ update = [k \in UpdateCalls |-> NoUpdate]

\* As Spec, for an event whose waitlist may be disabled and whose registration
\* may be closed.
FlagSpec == InitAnyFlags /\ [][Next]_vars

\* No call other than c is between its first step and its return.
Alone(c) == \A d \in Calls \ {c} : pc[d] \in {"idle", "done", "failed"}

NextSequential ==
    \/ Tick
    \/ \E c \in SubmitCalls : Alone(c) /\ submitRsvp(c)
    \/ \E c \in CancelCalls : Alone(c) /\ RsvpService_cancelRsvp(c)
    \/ \E c \in CancelCalls : Alone(c) /\ AdminService_cancelAttendee(c)

\* As Spec, with the calls made one after the other: a call starts only when
\* every call before it has returned.
SequentialSpec == Init /\ [][NextSequential]_vars

\* The values of a generateQrCode that may return the same value twice.
QrCodes == 1..NumQrCodes

submitRsvpAnyQrCode(c) ==
    \/ \E token \in Tokens, plusOne \in BOOLEAN : submitRsvpValidate(c, token, plusOne)
    \/ \E qrCode \in QrCodes : submitRsvpCheckCapacityWith(c, qrCode)
    \/ \E plusOneQrCode \in QrCodes : submitRsvpTransactionWith(c, plusOneQrCode)
    \/ submitRsvpReread(c)
    \/ submitRsvpSendEmails(c)
    \/ submitRsvpSyncSheets(c)

NextQr ==
    \/ Tick
    \/ \E c \in SubmitCalls : submitRsvpAnyQrCode(c)

\* Concurrent submitRsvp calls whose QR codes may collide.
QrSpec == Init /\ [][NextQr]_vars

NextInvite == \E k \in CreateCalls : InviteService_createInvite(k)

\* Concurrent createInvite calls for the event.
InviteSpec == Init /\ [][NextInvite]_vars

NextUpdate ==
    \/ NextSequential
    \/ \E k \in UpdateCalls : EventService_update(k)

\* As SequentialSpec, with an admin who updates the event's capacity at any
\* moment, between the steps of a submitRsvp included.
UpdateSpec == Init /\ [][NextUpdate]_vars

\* No submitRsvp or cancel call is in flight; no check-in call is in flight.
NoCallInFlight == \A c \in Calls : pc[c] \in {"idle", "done", "failed"}

NoCheckInInFlight == \A k \in CheckInCalls : checkIn[k].pc \in {"idle", "done", "failed"}

NextCheckIn ==
    \/ NoCheckInInFlight /\ NextSequential
    \/ \E k \in CheckInCalls : NoCallInFlight /\ QrService_checkInAttendee(k)

\* As SequentialSpec, with check-in calls at the door that run concurrently
\* with each other, between the submitRsvp and cancel calls.
CheckInSpec == Init /\ [][NextCheckIn]_vars

\* A collaborator of the email block or of the sheet sync never responds: the
\* promise the call awaits never settles, and the call stays at that await.
submitRsvpCollaboratorHangs(c) ==
    /\ pc[c] \in {"notify", "sync"}
    /\ pc' = [pc EXCEPT ![c] = "awaiting"]
    /\ UNCHANGED <<now, store, rsvp, cancel, error, effects, otherCalls>>

NextHang ==
    \/ Next
    \/ \E c \in SubmitCalls : submitRsvpCollaboratorHangs(c)

\* As Spec, with collaborators that may never respond.  The event loop resumes
\* every call whose awaited promise has settled.
HangSpec ==
    /\ Init
    /\ [][NextHang]_vars
    /\ \A c \in SubmitCalls : WF_vars(submitRsvp(c))
    /\ \A c \in CancelCalls : WF_vars(cancelTransaction(c))

\* ---------------------------------------------------------------- claims

partySize(a) == IF plusOnes[a].exists THEN 2 ELSE 1

Started(c) == pc[c] # "idle"

Finished(c) == pc[c] \in {"done", "failed"}

Registrants(token) == {a \in AttendeeIds : attendees[a].exists /\ attendees[a].inviteId = token}

WithStatus(status) == {a \in AttendeeIds : attendees[a].exists /\ attendees[a].status = status}

NoCancelStarted == \A k \in CancelCalls : ~Started(k)

\* C1: under concurrent submitRsvp calls with distinct valid invitations (and
\* no cancel), currentRegistrations never exceeds capacity.
C1_CapacityNeverExceeded ==
    (/\ NoCancelStarted
     /\ \A c \in SubmitCalls : pc[c] # "failed"
     /\ \A c, d \in SubmitCalls :
            (c # d /\ Started(c) /\ Started(d)) => rsvp[c].token # rsvp[d].token)
    => event.currentRegistrations <= event.capacity

\* C2: N submitRsvp calls without companions, each with its own valid
\* invitation, against k <= N free seats end with exactly k CONFIRMED and
\* N - k WAITLISTED registrants.
C2_ExactlyKConfirmed ==
    (/\ NoCancelStarted
     /\ \A c \in SubmitCalls : pc[c] = "done" /\ ~plusOnes[c].exists
     /\ event.capacity <= NumSubmit)
    => /\ Cardinality(WithStatus("CONFIRMED")) = event.capacity
       /\ Cardinality(WithStatus("WAITLISTED")) = NumSubmit - event.capacity

\* C3: of the submitRsvp calls made with the same unused, unexpired token,
\* exactly one succeeds and every other one fails with AlreadyUsed.
C3_OneSuccessOthersAlreadyUsed ==
    \A c, d \in SubmitCalls :
        (/\ c # d
         /\ Finished(c) /\ Finished(d)
         /\ rsvp[c].token \in Invites
         /\ rsvp[c].token = rsvp[d].token
         /\ error[c] # "Expired" /\ error[d] # "Expired")
        => \/ pc[c] = "done" /\ pc[d] = "failed" /\ error[d] = "AlreadyUsed"
           \/ pc[d] = "done" /\ pc[c] = "failed" /\ error[c] = "AlreadyUsed"

\* C4: every invitation is referenced by at most one attendee row.
C4_OneRegistrantPerInvite ==
    \A t \in Invites : Cardinality(Registrants(t)) <= 1

\* Two calls redeemed the same invitation; one created the attendee and the
\* other was stopped by the unique index.
C4_Witness ==
    \E c, d \in SubmitCalls :
        /\ attendees[c].exists
        /\ pc[d] = "failed" /\ error[d] = "UniqueConstraint"
        /\ rsvp[d].token = attendees[c].inviteId

\* C5: an invitation is used if and only if an attendee row references it.
C5_UsedIffRegistrant ==
    \A t \in Invites : invites[t].isUsed <=> Registrants(t) # {}

\* One invitation has been redeemed and another has not.
C5_Witness ==
    \E t, u \in Invites :
        /\ invites[t].isUsed /\ Registrants(t) # {}
        /\ ~invites[u].isUsed /\ Registrants(u) = {}
        /\ \E c \in SubmitCalls : rsvp[c].token = u /\ pc[c] = "failed"

\* C6: currentRegistrations is the sum of the party sizes of the CONFIRMED
\* registrants, under any interleaving of submitRsvp and cancel calls.
C6_CounterMatchesConfirmed ==
    event.currentRegistrations =
        Cardinality(WithStatus("CONFIRMED"))
        + Cardinality({a \in WithStatus("CONFIRMED") : plusOnes[a].exists})

\* C7: a submitRsvp call that failed, a store failure at any of its store
\* accesses included, has left no registrant, companion, consumed invitation
\* or reserved capacity behind.
C7_FailedSubmitLeavesNothing ==
    \A c \in SubmitCalls :
        pc[c] = "failed" => ~attendees[c].exists /\ ~plusOnes[c].exists

\* C8: a submitRsvp call whose token is unknown, consumed or expired fails with
\* the corresponding error and changes nothing in the store; a call that failed
\* so has created no registrant.
C8_InvalidTokenRejected ==
    /\ [][\A c \in SubmitCalls :
            (pc[c] = "idle" /\ pc'[c] # "idle") =>
                LET t == rsvp'[c].token IN
                /\ t \notin Invites =>
                        pc'[c] = "failed" /\ error'[c] = "NotFound" /\ store' = store
                /\ (t \in Invites /\ invites[t].isUsed) =>
                        pc'[c] = "failed" /\ error'[c] = "AlreadyUsed" /\ store' = store
                /\ (t \in Invites /\ ~invites[t].isUsed /\ now > invites[t].expiresAt) =>
                        pc'[c] = "failed" /\ error'[c] = "Expired" /\ store' = store]_vars
    /\ [](\A c \in SubmitCalls :
            (pc[c] = "failed" /\ error[c] \in {"NotFound", "AlreadyUsed", "Expired"})
                => ~attendees[c].exists)

\* A submitRsvp issued after the token was consumed by another call has failed
\* with AlreadyUsed, and the token still has its one registrant.
C8_Witness ==
    \E c, d \in SubmitCalls :
        /\ c # d
        /\ attendees[d].exists
        /\ pc[c] = "failed" /\ error[c] = "AlreadyUsed"
        /\ rsvp[c].token = attendees[d].inviteId
        /\ Cardinality(Registrants(rsvp[c].token)) = 1

\* C9: the side-effect steps of a committed submitRsvp, whatever fails in
\* them, change nothing in the store and never fail the call: the email
\* block is followed by the sheet sync, and the sheet sync by the response
\* with the status decided at admission.
C9_SideEffectsNeverFailSubmit ==
    [][\A c \in SubmitCalls :
        (pc[c] \in {"notify", "sync"} /\ pc'[c] # pc[c]) =>
            /\ store' = store
            /\ pc'[c] = (IF pc[c] = "notify" THEN "sync" ELSE "done")
            /\ error'[c] = "none"
            /\ rsvp'[c].status = rsvp[c].status
            /\ attendees'[c].exists]_vars

\* A collaborator of the email block threw, and the call went on to the sheet
\* sync with its registrant committed.
C9_Witness ==
    \E c \in SubmitCalls :
        /\ pc[c] = "sync"
        /\ effects[c].failed # {}
        /\ attendees[c].exists /\ invites[attendees[c].inviteId].isUsed

Notifications == {"confirmationEmail", "plusOneConfirmationEmail", "waitlistEmail"}

\* C10: when a notification of a committed submission fails, every other
\* notification of that submission has still been attempted once the email
\* block is over.
C10_NotificationsIndependent ==
    \A c \in SubmitCalls :
        (pc[c] = "sync" /\ effects[c].failed \subseteq Notifications) =>
            LET block == emailBlock(rsvp[c].status, rsvp[c].plusOne)
            IN  \A i \in 1..Len(block) :
                    block[i] \in Notifications => block[i] \in effects[c].attempted

RenderCalls == {"calendarFile", "qrCodeImage"}

\* C11: for a committed CONFIRMED submission, when rendering the calendar file
\* or the check-in QR image fails, the confirmation email to the registrant
\* has still been attempted once the email block is over.
C11_RenderFailureStillNotifies ==
    \A c \in SubmitCalls :
        (/\ pc[c] = "sync"
         /\ rsvp[c].status = "CONFIRMED"
         /\ effects[c].failed # {}
         /\ effects[c].failed \subseteq RenderCalls)
        => "confirmationEmail" \in effects[c].attempted

\* C12: every submitRsvp call whose transaction has committed eventually
\* returns its result, even when a collaborator of its side effects never
\* responds.
C12_CommittedSubmitReturns ==
    \A c \in SubmitCalls : attendees[c].exists ~> (pc[c] = "done")

\* C13: for an event with waitlistEnabled = false, a submitRsvp that finds
\* too little free capacity fails and creates no registrant: no WAITLISTED
\* registrant ever exists for such an event.
C13_NoWaitlistWhenDisabled ==
    ~event.waitlistEnabled => WithStatus("WAITLISTED") = {}

\* C14: for an event with registrationOpen = false, submitRsvp fails: no
\* registrant is created, no invitation is consumed and no capacity is
\* reserved.
C14_ClosedRegistrationRejects ==
    ~event.registrationOpen =>
        /\ \A a \in AttendeeIds : ~attendees[a].exists
        /\ \A t \in Invites : ~invites[t].isUsed
        /\ event.currentRegistrations = 0
        /\ \A c \in SubmitCalls : Finished(c) => pc[c] = "failed"

C16_CancelReleasesPartySize ==
    [][\A k \in CancelCalls :
        (pc[k] = "transaction" /\ pc'[k] = "done") =>
            LET a == cancel[k].attendeeId IN
            /\ attendees'[a].status = "CANCELLED"
            /\ attendees[a].status = "CONFIRMED" =>
                    event'.currentRegistrations = event.currentRegistrations - partySize(a)
            /\ attendees[a].status = "WAITLISTED" =>
                    event'.currentRegistrations = event.currentRegistrations
            /\ event'.capacity = event.capacity]_vars

\* The only registrant, CONFIRMED with a companion, has been cancelled by the
\* only cancel call made, and both of its seats are free again.
C16_Witness ==
    \E k \in CancelCalls :
        LET a == cancel[k].attendeeId IN
        /\ pc[k] = "done"
        /\ \A l \in CancelCalls \ {k} : pc[l] = "idle"
        /\ \A c \in SubmitCalls \ {a} : pc[c] = "idle"
        /\ attendees[a].status = "CANCELLED" /\ plusOnes[a].exists
        /\ event.capacity = 2 /\ event.currentRegistrations = 0

AlreadyCancelledErrors == {"RegistrationAlreadyCancelled", "AttendeeAlreadyCancelled"}

\* C17: a cancel, through either service, of a registrant that does not exist
\* or is already CANCELLED fails with the not-found or the already-cancelled
\* error of its service and leaves every row of the store as it was; a cancel
\* goes on to its transaction only for a registrant that exists and is not
\* CANCELLED.
C17_RecancelFails ==
    [][\A k \in CancelCalls, a \in AttendeeIds :
        /\ cancelRead(k, "cancelRsvp", a) =>
            /\ ~attendees[a].exists =>
                pc'[k] = "failed" /\ error'[k] = "RegistrationNotFound" /\ store' = store
            /\ (attendees[a].exists /\ attendees[a].status = "CANCELLED") =>
                pc'[k] = "failed" /\ error'[k] = "RegistrationAlreadyCancelled" /\ store' = store
        /\ cancelRead(k, "cancelAttendee", a) =>
            /\ ~attendees[a].exists =>
                pc'[k] = "failed" /\ error'[k] = "AttendeeNotFound" /\ store' = store
            /\ (attendees[a].exists /\ attendees[a].status = "CANCELLED") =>
                pc'[k] = "failed" /\ error'[k] = "AttendeeAlreadyCancelled" /\ store' = store
        /\ (pc[k] = "idle" /\ pc'[k] = "transaction") =>
            /\ attendees[cancel'[k].attendeeId].exists
            /\ attendees[cancel'[k].attendeeId].status \in {"CONFIRMED", "WAITLISTED"}]_vars

\* A registrant was cancelled by one call, and a later cancel of it has failed
\* with the already-cancelled error, the released seat counted once.
C17_Witness ==
    \E k, l \in CancelCalls :
        LET a == cancel[l].attendeeId IN
        /\ pc[l] = "done" /\ attendees[a].status = "CANCELLED"
        /\ pc[k] = "failed" /\ error[k] \in AlreadyCancelledErrors
        /\ \A c \in SubmitCalls \ {a} : pc[c] = "idle"
        /\ event.currentRegistrations = 0

\* The cancel calls that returned successfully for registrant a.
SucceededCancels(a) == {k \in CancelCalls : pc[k] = "done" /\ cancel[k].attendeeId = a}

\* C18: of the concurrent cancel calls on the same CONFIRMED registrant, made
\* through either service, exactly one succeeds, and currentRegistrations is
\* decreased by the registrant's party size exactly once.
C18_OneCancelSucceeds ==
    \A a \in AttendeeIds :
        /\ Cardinality(SucceededCancels(a)) <= 1
        /\ (/\ SucceededCancels(a) # {}
            /\ \A k \in CancelCalls : Finished(k)
            /\ \A c \in SubmitCalls : Finished(c))
           => event.currentRegistrations =
                Cardinality(WithStatus("CONFIRMED"))
                + Cardinality({b \in WithStatus("CONFIRMED") : plusOnes[b].exists})

\* C19: currentRegistrations is never negative, under any sequence or
\* interleaving of submitRsvp and cancel calls.
C19_CounterNeverNegative ==
    event.currentRegistrations >= 0

\* C20: validateToken accepts a token iff it exists, is unused and now is at
\* most its expiresAt; otherwise it reports a missing token first, then a used
\* one, then an expired one, so a token both used and expired is AlreadyUsed.
C20_ValidateTokenOrder ==
    \A t \in Tokens :
        /\ validateToken(t) = "ok" <=>
                (t \in Invites /\ ~invites[t].isUsed /\ now <= invites[t].expiresAt)
        /\ t \notin Invites => validateToken(t) = "NotFound"
        /\ (t \in Invites /\ invites[t].isUsed) => validateToken(t) = "AlreadyUsed"
        /\ (t \in Invites /\ ~invites[t].isUsed /\ now > invites[t].expiresAt) =>
                validateToken(t) = "Expired"

\* An invitation was redeemed at the very instant of its expiresAt; it is now
\* both used and expired, and a second submitRsvp with it failed with
\* AlreadyUsed.
C20_Witness ==
    \E c, d \in SubmitCalls, t \in Invites :
        /\ attendees[d].exists /\ attendees[d].inviteId = t
        /\ attendees[d].registrationId = invites[t].expiresAt % RegIdDigits
        /\ invites[t].isUsed /\ now > invites[t].expiresAt
        /\ pc[c] = "failed" /\ error[c] = "AlreadyUsed" /\ rsvp[c].token = t

\* C21: once an invitation is used it stays used: no step of any call, a
\* cancel of its registrant or a failed or repeated submit included, sets
\* isUsed back to false.
C21_UsedStaysUsed ==
    [][\A t \in Invites : invites[t].isUsed => invites'[t].isUsed]_vars

\* The registrant of a used invitation has been cancelled, a second submitRsvp
\* with that invitation has failed with AlreadyUsed, and it is still used.
C21_Witness ==
    \E k \in CancelCalls, c \in SubmitCalls :
        LET a == cancel[k].attendeeId IN
        /\ pc[k] = "done" /\ attendees[a].status = "CANCELLED"
        /\ invites[attendees[a].inviteId].isUsed
        /\ c # a /\ pc[c] = "failed" /\ error[c] = "AlreadyUsed"
        /\ rsvp[c].token = attendees[a].inviteId

\* C22: once a registrant is created it stays, and its status changes only
\* from CONFIRMED or WAITLISTED to CANCELLED: CANCELLED is terminal, WAITLISTED
\* is never promoted and CONFIRMED never demoted.
C22_OnlyCancellationChangesStatus ==
    [][\A a \in AttendeeIds :
        attendees[a].exists =>
            /\ attendees'[a].exists
            /\ \/ attendees'[a].status = attendees[a].status
               \/ /\ attendees[a].status \in {"CONFIRMED", "WAITLISTED"}
                  /\ attendees'[a].status = "CANCELLED"]_vars

\* A registrant has been cancelled and another one is still WAITLISTED although
\* the seats it needs are free.
C22_Witness ==
    \E k \in CancelCalls, b \in AttendeeIds :
        /\ pc[k] = "done" /\ attendees[cancel[k].attendeeId].status = "CANCELLED"
        /\ attendees[b].status = "WAITLISTED"
        /\ event.capacity - event.currentRegistrations >= partySize(b)

\* C23: a currentRegistrations above capacity or below zero is never
\* committed: the write that would produce it aborts its transaction.
C23_OutOfRangeNeverCommitted ==
    event.currentRegistrations \in 0..event.capacity

\* The seats of the committed CONFIRMED parties among the attendees in S.
RECURSIVE confirmedSeats(_)
confirmedSeats(S) ==
    IF S = {} THEN 0
    ELSE LET a == CHOOSE x \in S : TRUE
         IN (IF attendees[a].exists /\ attendees[a].status = "CONFIRMED"
             THEN partySize(a) ELSE 0) + confirmedSeats(S \ {a})

\* C30: of the submitRsvp calls that generate the same registration ID, only
\* one commits; each other one fails with nothing written: it has no registrant
\* or companion, its invitation is used only if another call committed with it,
\* and currentRegistrations counts the committed parties only.
C30_RegistrationIdCollisionRollsBack ==
    /\ \A c, d \in SubmitCalls :
        (c # d /\ attendees[c].exists /\ attendees[d].exists)
            => attendees[c].registrationId # attendees[d].registrationId
    /\ \A c \in SubmitCalls :
        (pc[c] = "failed" /\ error[c] = "UniqueConstraint") =>
            /\ ~attendees[c].exists /\ ~plusOnes[c].exists
            /\ \E d \in SubmitCalls \ {c} : attendees[d].exists
            /\ invites[rsvp[c].token].isUsed =>
                \E d \in SubmitCalls \ {c} :
                    attendees[d].exists /\ attendees[d].inviteId = rsvp[c].token
            /\ NoCancelStarted =>
                event.currentRegistrations = confirmedSeats(SubmitCalls)

\* Two calls with distinct invitations generated the same registration ID in
\* the same millisecond: one is committed, the other failed and its invitation
\* is still valid.
C30_Witness ==
    \E c, d \in SubmitCalls :
        /\ c # d
        /\ pc[c] = "failed" /\ error[c] = "UniqueConstraint"
        /\ rsvp[c].token # attendees[d].inviteId
        /\ attendees[d].exists /\ attendees[d].status = "CONFIRMED"
        /\ validateToken(rsvp[c].token) = "ok"
        /\ event.currentRegistrations = partySize(d)

InvitationsOf(email) ==
    {<<"invite", t>> : t \in {u \in Invites : invites[u].email = email}}
    \cup {<<"created", row[1]>> : row \in {r \in createdInvites : r[2] = email}}

\* C25: there is at most one invitation for each email address of the event,
\* also after concurrent createInvite calls, and a createInvite for an address
\* that has one fails and creates nothing.
C25_OneInvitePerEmail ==
    \A email \in Emails : Cardinality(InvitationsOf(email)) <= 1

\* C26: an update of the event's capacity never commits a capacity smaller
\* than currentRegistrations, so currentRegistrations <= capacity is kept,
\* also when the update interleaves with a confirming submitRsvp.
C26_UpdateKeepsCapacityBound ==
    event.currentRegistrations <= event.capacity

\* C27: the update of a companion's check-in sets the companion's checkedInAt
\* and changes no attendee row and no other companion; the update of a
\* registrant's check-in sets its checkedInAt, keeps its status and changes no
\* companion row and no other attendee; and a check-in is refused as already
\* done only when the row of the scanned code itself is checked in.
C27_CheckInTouchesOwnRowOnly ==
    [][\A k \in CheckInCalls :
        LET a == checkIn[k].id IN
        /\ (checkIn[k].pc = "updatePlusOne" /\ checkIn'[k].pc # "updatePlusOne") =>
            /\ plusOnes'[a] = [plusOnes[a] EXCEPT !.checkedInAt = now]
            /\ \A b \in AttendeeIds \ {a} : plusOnes'[b] = plusOnes[b]
            /\ attendees' = attendees
        /\ (checkIn[k].pc = "updateAttendee" /\ checkIn'[k].pc # "updateAttendee") =>
            /\ attendees'[a] = [attendees[a] EXCEPT !.checkedInAt = now]
            /\ \A b \in AttendeeIds \ {a} : attendees'[b] = attendees[b]
            /\ plusOnes' = plusOnes
        /\ (checkIn[k].pc # "failed" /\ checkIn'[k].pc = "failed") =>
            /\ store' = store
            /\ checkIn'[k].error = "AttendeeAlreadyCheckedIn" =>
                \E b \in AttendeeIds : /\ attendees[b].qrCode = checkIn'[k].qrCode
                                       /\ attendees[b].checkedInAt # Null
            /\ checkIn'[k].error = "PlusOneAlreadyCheckedIn" =>
                \E b \in AttendeeIds : /\ plusOnes[b].qrCode = checkIn'[k].qrCode
                                       /\ plusOnes[b].checkedInAt # Null]_vars

\* Both the registrant and its companion have been checked in, each by a call
\* with its own code, the registrant first.
C27_Witness ==
    \E a \in AttendeeIds, k, l \in CheckInCalls :
        /\ plusOnes[a].exists
        /\ checkIn[k].pc = "done" /\ checkIn[k].qrCode = attendees[a].qrCode
        /\ checkIn[l].pc = "done" /\ checkIn[l].qrCode = plusOnes[a].qrCode
        /\ attendees[a].checkedInAt = 0 /\ plusOnes[a].checkedInAt = 1

\* C28: a check-in never overwrites a checkedInAt that is already set: the
\* call that writes the check-in time of a registrant or of a companion finds
\* it unset, so at most one call checks a QR code in, under any interleaving.
C28_CheckedInAtNeverOverwritten ==
    [][\A k \in CheckInCalls :
        /\ (checkIn[k].pc = "updateAttendee" /\ checkIn'[k].pc # "updateAttendee")
            => attendees[checkIn[k].id].checkedInAt = Null
        /\ (checkIn[k].pc = "updatePlusOne" /\ checkIn'[k].pc # "updatePlusOne")
            => plusOnes[checkIn[k].id].checkedInAt = Null]_vars

\* C29: a check-in is written only when the registrant of the scanned code (for
\* a companion's code, the companion's registrant) is CONFIRMED.
C29_CheckInOnlyConfirmed ==
    [][\A k \in CheckInCalls :
        \/ /\ checkIn[k].pc = "updateAttendee"
           /\ checkIn'[k].pc # "updateAttendee"
        \/ /\ checkIn[k].pc = "updatePlusOne"
           /\ checkIn'[k].pc # "updatePlusOne"
        => attendees[checkIn[k].id].status = "CONFIRMED"]_vars

====
